---- MODULE Spec2Model ----
(***************************************************************************)
(* Model of src/main.py: a chat bot that rewrites social-media links.      *)
(*                                                                         *)
(* Text is a sequence of atoms.  Every atom stands for a literal piece of  *)
(* a message ("https://", "x", ".com", ...); the alphabet is chosen so     *)
(* that a substring test or a regular-expression match of main.py on the   *)
(* characters is exactly the same test on the atoms.                       *)
(***************************************************************************)
EXTENDS Integers, Sequences, FiniteSets, TLC

----------------------------------------------------------------------------
(* Text primitives: Python's `in`, [a-zA-Z0-9_]+, [0-9]+, [^\s]*            *)

\* needle in text (str.__contains__)
Contains(text, needle) ==
    \E i \in 1..(Len(text) - Len(needle) + 1) :
        SubSeq(text, i, i + Len(needle) - 1) = needle

\* atoms made only of characters of [a-zA-Z0-9_]
WordAtoms == {"x", "twitter", "reddit", "tiktok", "fxtwitter", "vxreddit",
              "tnktok", "status", "u", "1", "n", "a", "m", "e"}

\* atoms made only of characters of [0-9]
DigitAtoms == {"1"}

\* atoms made only of characters of \s
SpaceAtoms == {" "}

AllAtoms == WordAtoms \cup SpaceAtoms \cup {"https://", "www.", ".com", "/", ":", "."}

\* len() of the piece of text an atom stands for
AtomLen(atom) ==
    CASE atom \in {"fxtwitter"} -> 9
      [] atom \in {"https://", "vxreddit"} -> 8
      [] atom \in {"twitter"} -> 7
      [] atom \in {"reddit", "tiktok", "tnktok", "status"} -> 6
      [] atom \in {"www.", ".com"} -> 4
      [] OTHER -> 1

\* the atoms that stand for more than one character
LongAtoms == {"fxtwitter", "https://", "vxreddit", "twitter", "reddit", "tiktok",
              "tnktok", "status", "www.", ".com"}

\* len(text): one for every atom, and what the longer atoms have beyond one
TextLen(text) ==
    LET long == {i \in DOMAIN text : text[i] \in LongAtoms}
        count(n) == Cardinality({i \in long : AtomLen(text[i]) = n})
    IN Len(text) + 3 * count(4) + 5 * count(6) + 6 * count(7)
                 + 7 * count(8) + 8 * count(9)

\* first index j >= i whose atom is not in class (Len(text)+1 if none):
\* the end of a greedy character-class repetition started at i
RunEnd(text, i, class) ==
    CHOOSE j \in i..(Len(text) + 1) :
        /\ \A k \in i..(j - 1) : text[k] \in class
        /\ j = Len(text) + 1 \/ text[j] \notin class

\* "literal" at position i of text
At(text, i, lit) ==
    /\ i >= 1
    /\ i + Len(lit) - 1 <= Len(text)
    /\ SubSeq(text, i, i + Len(lit) - 1) = lit

\* position after the optional group (www\.)? tried at position i
AfterWww(text, i) == IF At(text, i, <<"www.">>) THEN i + 1 ELSE i

----------------------------------------------------------------------------
(* handle_twitter                                                          *)

None == [kind |-> "none"]

Result(new_text, original_url, label) ==
    [kind |-> "match", new_text |-> new_text, original_url |-> original_url,
     label |-> label, delete_original |-> TRUE]

\* r"https://(www\.)?(x|twitter)\.com/([a-zA-Z0-9_]+)/status/([0-9]+)" matched
\* at position i: the groups and the position after the match, or None
TwitterMatch(text, i) ==
    IF ~At(text, i, <<"https://">>) THEN None
    ELSE LET b == AfterWww(text, i + 1)
         IN IF ~(\/ At(text, b, <<"x", ".com", "/">>)
                 \/ At(text, b, <<"twitter", ".com", "/">>)) THEN None
            ELSE LET c == b + 3
                     d == RunEnd(text, c, WordAtoms)
                 IN IF d = c \/ ~At(text, d, <<"/", "status", "/">>) THEN None
                    ELSE LET e == d + 3
                             f == RunEnd(text, e, DigitAtoms)
                         IN IF f = e THEN None
                            ELSE [kind |-> "match",
                                  g1 |-> SubSeq(text, i + 1, b - 1),
                                  g2 |-> text[b],
                                  g3 |-> SubSeq(text, c, d - 1),
                                  g4 |-> SubSeq(text, e, f - 1),
                                  end |-> f]

\* re.sub(pattern, r"https://fxtwitter.com/\3/status/\4", content): the
\* matches are replaced from left to right without overlap; sub[i] is the
\* rewritten text[i..]
TwitterSub(text) ==
    LET sub[i \in 1..(Len(text) + 1)] ==
            IF i > Len(text) THEN <<>>
            ELSE LET m == TwitterMatch(text, i)
                 IN IF m = None THEN <<text[i]>> \o sub[i + 1]
                    ELSE <<"https://", "fxtwitter", ".com", "/">> \o m.g3
                         \o <<"/", "status", "/">> \o m.g4 \o sub[m.end]
    IN sub[1]

\* re.search(pattern, content): the leftmost match, or None
TwitterSearch(text) ==
    LET starts == {i \in 1..Len(text) : TwitterMatch(text, i) # None}
    IN IF starts = {} THEN None
       ELSE TwitterMatch(text, CHOOSE i \in starts : \A j \in starts : i <= j)

TwitterDomains == {<<"https://", "x", ".com">>, <<"https://", "twitter", ".com">>,
                   <<"https://", "www.", "x", ".com">>,
                   <<"https://", "www.", "twitter", ".com">>}

handle_twitter(content) ==
    IF Contains(content, <<"fxtwitter", ".com">>) THEN None
    ELSE IF ~(\E domain \in TwitterDomains : Contains(content, domain)) THEN None
    ELSE LET new_content == TwitterSub(content)
             match == TwitterSearch(content)
         IN IF new_content = content THEN None
            ELSE IF match = None THEN None
            ELSE Result(new_content,
                        <<"https://">> \o match.g1
                          \o <<IF match.g2 = "x" THEN "x" ELSE "twitter">>
                          \o <<".com", "/">> \o match.g3
                          \o <<"/", "status", "/">> \o match.g4,
                        "Open in X")

----------------------------------------------------------------------------
(* handle_reddit and handle_tiktok                                         *)

\* r"https://(www\.)?<name>\.com" matched at position i: the position after
\* the match (0 if none)
DomainMatchEnd(text, i, name) ==
    IF ~At(text, i, <<"https://">>) THEN 0
    ELSE LET b == AfterWww(text, i + 1)
         IN IF At(text, b, <<name, ".com">>) THEN b + 2 ELSE 0

\* re.sub of r"https://(www\.)?<name>\.com" by "https://" + (\1 if keepWww)
\* + target + ".com"; sub[i] is the rewritten text[i..]
DomainSub(text, name, target, keepWww) ==
    LET sub[i \in 1..(Len(text) + 1)] ==
            IF i > Len(text) THEN <<>>
            ELSE LET e == DomainMatchEnd(text, i, name)
                 IN IF e = 0 THEN <<text[i]>> \o sub[i + 1]
                    ELSE <<"https://">>
                         \o (IF keepWww THEN SubSeq(text, i + 1, e - 3) ELSE <<>>)
                         \o <<target, ".com">> \o sub[e]
    IN sub[1]

\* re.search(r"https://(www\.)?<name>\.com[^\s]*", content): the leftmost
\* match (group 0), or None
DomainSearch(text, name) ==
    LET starts == {i \in 1..Len(text) : DomainMatchEnd(text, i, name) # 0}
    IN IF starts = {} THEN None
       ELSE LET i == CHOOSE i \in starts : \A j \in starts : i <= j
                e == DomainMatchEnd(text, i, name)
            IN [kind |-> "match",
                g0 |-> SubSeq(text, i, RunEnd(text, e, AllAtoms \ SpaceAtoms) - 1)]

\* (variant: an address without "https://" is rewritten too)
handle_reddit_loose(content) ==
    IF Contains(content, <<"vxreddit", ".com">>) THEN None
    ELSE IF ~Contains(content, <<"reddit", ".com">>) THEN None
    ELSE Result([i \in DOMAIN content |->
                    IF content[i] = "reddit" THEN "vxreddit" ELSE content[i]],
                content, "Open in Reddit")

handle_reddit(content) ==
    IF Contains(content, <<"vxreddit", ".com">>) THEN None
    ELSE IF ~(\/ Contains(content, <<"https://", "reddit", ".com">>)
              \/ Contains(content, <<"https://", "www.", "reddit", ".com">>)) THEN None
    ELSE LET new_content == DomainSub(content, "reddit", "vxreddit", FALSE)
             match == DomainSearch(content, "reddit")
         IN IF new_content = content THEN None
            ELSE IF match = None THEN None
            ELSE Result(new_content, match.g0, "Open in Reddit")

\* (variant: the text is not tested for the target domain first)
handle_tiktok_unguarded(content) ==
    IF ~(\/ Contains(content, <<"https://", "tiktok", ".com">>)
         \/ Contains(content, <<"https://", "www.", "tiktok", ".com">>)) THEN None
    ELSE LET new_content == DomainSub(content, "tiktok", "tnktok", TRUE)
             match == DomainSearch(content, "tiktok")
         IN IF new_content = content THEN None
            ELSE IF match = None THEN None
            ELSE Result(new_content, match.g0, "Open in TikTok")

handle_tiktok(content) ==
    IF Contains(content, <<"tnktok", ".com">>) THEN None
    ELSE IF ~(\/ Contains(content, <<"https://", "tiktok", ".com">>)
              \/ Contains(content, <<"https://", "www.", "tiktok", ".com">>)) THEN None
    ELSE LET new_content == DomainSub(content, "tiktok", "tnktok", TRUE)
             match == DomainSearch(content, "tiktok")
         IN IF new_content = content THEN None
            ELSE IF match = None THEN None
            ELSE Result(new_content, match.g0, "Open in TikTok")

\* get_handlers(): the handlers in the order they are tried
NumHandlers == 3

Handler(h, content) ==
    CASE h = 1 -> handle_twitter(content)
      [] h = 2 -> handle_reddit(content)
      [] h = 3 -> handle_tiktok(content)


\* "await handler(message, message.content)" for each handler of
\* get_handlers(); the handlers are pure functions of the content, so the
\* value each returns for a message is computed once
Results(content) == <<Handler(1, content), Handler(2, content), Handler(3, content)>>

\* The handlers only test and rewrite a str until a match is found; the one
\* call that can fail is build_link_button (discord.ui), made once the handler
\* has its match.  raising is the set of handlers in which that call fails.
Raises(results, hh, raising) == results[hh] # None /\ hh \in raising

\* (variant: a handler that raises is not passed over)
FirstMatchIgnoringRaise(results, from, raising) ==
    LET returning == {k \in from..NumHandlers : results[k] # None}
    IN IF returning = {} THEN 0
       ELSE CHOOSE k \in returning : \A j \in returning : k <= j

\* the for loop of on_message from handler `from` on: the first handler that
\* returns a result; a handler that returns None or raises is passed over
\* ("continue").  0 when no handler is left.
FirstMatch(results, from, raising) ==
    LET returning == {k \in from..NumHandlers :
                        results[k] # None /\ ~Raises(results, k, raising)}
    IN IF returning = {} THEN 0
       ELSE CHOOSE k \in returning : \A j \in returning : k <= j

\* Discord's limit on the length of a message, and where a longer one is cut
MaxContentLen == 2000
CutLen == 1997

\* (variant: the cut keeps MaxContentLen characters before the marker)
FormatContentCutLate(author_name, new_content) ==
    LET formatted == author_name \o <<":", " ">> \o new_content
    IN IF TextLen(formatted) > MaxContentLen
       THEN SubSeq(formatted, 1, MaxContentLen) \o <<".", ".", ".">>
       ELSE formatted

\* f"{author_name}: {new_content}", then formatted_content[:1997] + "..." if
\* it is longer than 2000.  The texts of this model that are long enough to
\* be cut are made of one-character atoms, so that [:1997] is SubSeq.
FormatContent(author_name, new_content) ==
    LET formatted == author_name \o <<":", " ">> \o new_content
    IN IF TextLen(formatted) > MaxContentLen
       THEN SubSeq(formatted, 1, CutLen) \o <<".", ".", ".">>
       ELSE formatted

----------------------------------------------------------------------------
(* Bounds and inputs                                                       *)

NumTasks == 2
NumMsgs == 2
NumChannels == 2
MAX_PROCESSED_CACHE == 1000

\* the executions of on_message, one for an inbound event: NumTasks events
\* are delivered where executions of any channels meet, one more where the
\* order of the events of one channel is looked at
Tasks == 1..(NumTasks + 1)
MsgIds == 1..NumMsgs
Channels == 1..NumChannels

TW == <<"https://", "twitter", ".com", "/", "u", "/", "status", "/", "1">>
RD == <<"https://", "www.", "reddit", ".com", "/", "u">>
TK == <<"https://", "www.", "tiktok", ".com", "/", "u">>

\* message.content of the inbound messages: empty, an address without
\* "https://" (no recognized source domain), links of two families, a link
\* of the last family
Contents == {<<>>, <<"www.", "reddit", ".com", "/", "u">>, TW \o <<" ">> \o RD, TK}

AuthorName == <<"n", "a", "m", "e">>


\* channel.permissions_for(...).manage_messages, or the query raising
PermissionAnswers == {"yes", "no", "error"}

SendOutcomes == {"ok", "Forbidden", "HTTPException", "Exception"}
DeleteOutcomes == {"ok", "NotFound", "Forbidden", "HTTPException", "Exception"}

\* the text of the repost made of each result of a message, and what the
\* handlers return for that text (pure functions of the content: computed
\* once for the messages that exist from the start)
RepostTexts(res) ==
    [k \in 1..NumHandlers |->
        IF res[k] = None THEN <<>> ELSE FormatContent(AuthorName, res[k].new_text)]

RepostResults(texts) == [k \in 1..NumHandlers |-> Results(texts[k])]

----------------------------------------------------------------------------
(* State                                                                   *)

VARIABLES
    messages,            \* the platform's messages: id -> channel, author.bot, content
    results,             \* id -> what each handler returns for that message's content
    repost_text,         \* id, handler -> the text of the repost made of that result
    repost_results,      \* id, handler -> what each handler returns for that text
    pc,                  \* where each on_message execution is suspended
    msg,                 \* the message of each execution (0 before it is delivered)
    h,                   \* the handler whose result the execution is acting on
    out,                 \* formatted_content handed to channel.send
    channel_locks,       \* channel id -> asyncio.Lock (locked, FIFO of waiters)
    recently_processed,  \* the ids of this model's messages that are in the set
    older,               \* how many further ids (earlier traffic) are in the set
    next_id,             \* id the platform gives the next message it creates
    sent,                \* the messages channel.send created, in order
    acted,               \* per execution: handlers whose result reached channel.send
    raised,              \* per execution: handlers that raised
    deletes,             \* per execution: number of message.delete() calls
    recorded,            \* per execution: ids passed to recently_processed.add
    perm,                \* per execution: what each permission query answered
    events,              \* how many inbound events the platform delivers
    created,             \* per execution: id of the message its send in flight has created
    call,                \* arguments of a send_preserved_message call on its own
    send_pc,             \* where that call is
    formatted_content,   \* its formatted_content
    files,               \* its files
    fetch_failed,        \* the attachments whose read failed
    send_calls,          \* what channel.send was called with
    send_outcome,        \* what channel.send did
    send_ret,            \* what send_preserved_message returned
    rule_in,             \* a text one handler is applied to on its own
    rule_h,              \* that handler (0: none yet)
    rule_out,            \* what it returned
    rule_pass            \* 1: applied to a text; 2: applied again, to its own new_text

vars == <<messages, results, repost_text, repost_results, pc, msg, h, out, channel_locks, recently_processed, older,
          next_id, sent, acted, raised, deletes, recorded, perm, events, created,
          rule_in, rule_h, rule_out, rule_pass,
          call, send_pc, formatted_content, files, fetch_failed, send_calls,
          send_outcome, send_ret>>

sendVars == <<call, send_pc, formatted_content, files, fetch_failed, send_calls,
              send_outcome, send_ret>>

ruleVars == <<rule_in, rule_h, rule_out, rule_pass>>

\* what on_message leaves alone
sideVars == <<ruleVars, sendVars, events, repost_text, repost_results>>

botVars == <<messages, results, repost_text, repost_results, pc, msg, h, out, channel_locks, recently_processed,
             older, next_id, sent, acted, raised, deletes, recorded, perm, events,
             created>>

\* len(recently_processed)
CacheSize(rp, n) == Cardinality(rp) + n

\* Channel ids are opaque, and once a message is known to come from a bot its
\* content is never read: one representative of each such family of inputs
MessagesCanonical(ms) ==
    \A m \in MsgIds :
        /\ \A c \in 1..(ms[m].channel - 1) : \E k \in 1..(m - 1) : ms[k].channel = c
        /\ ms[m].bot => ms[m].content = TW \o <<" ">> \o RD

\* no execution of on_message has started
BotAtRest ==
    /\ results = [m \in MsgIds |-> Results(messages[m].content)]
    /\ repost_text = [m \in MsgIds |-> RepostTexts(results[m])]
    /\ repost_results = [m \in MsgIds |-> RepostResults(repost_text[m])]
    /\ pc = [t \in Tasks |-> "idle"]
    /\ msg = [t \in Tasks |-> 0]
    /\ h = [t \in Tasks |-> 0]
    /\ out = [t \in Tasks |-> <<>>]
    /\ channel_locks = <<>>
    /\ recently_processed = {}
    /\ next_id = NumMsgs + 1
    /\ sent = <<>>
    /\ acted = [t \in Tasks |-> <<>>]
    /\ raised = [t \in Tasks |-> {}]
    /\ deletes = [t \in Tasks |-> 0]
    /\ recorded = [t \in Tasks |-> {}]
    /\ perm = [t \in Tasks |-> <<>>]
    /\ created = [t \in Tasks |-> 0]

\* no handler is applied on its own
RulesAtRest == rule_in = <<>> /\ rule_h = 0 /\ rule_out = None /\ rule_pass = 0

\* no send_preserved_message call is looked at on its own
SendAtRest ==
    /\ call = [author_name |-> <<>>, new_content |-> <<>>, attachments |-> <<>>]
    /\ send_pc = "off"
    /\ formatted_content = <<>>
    /\ files = <<>>
    /\ fetch_failed = {}
    /\ send_calls = <<>>
    /\ send_outcome = "none"
    /\ send_ret = "none"

Init ==
    /\ messages \in [MsgIds -> [channel : Channels, bot : BOOLEAN, content : Contents]]
    /\ MessagesCanonical(messages)
    /\ older \in {0, MAX_PROCESSED_CACHE}
    /\ events = NumTasks
    /\ BotAtRest
    /\ RulesAtRest
    /\ SendAtRest

----------------------------------------------------------------------------
(* asyncio.Lock kept in defaultdict(asyncio.Lock)                          *)

NewLock == [locked |-> FALSE, waiters |-> <<>>]

\* (variant: one lock for all channels)
LockKeyGlobal(message) == 1

\* the key of channel_locks[message.channel.id]
LockKey(message) == message.channel

\* channel_locks[c]: a missing key is created on first reference
Lookup(locks, c) == IF c \in DOMAIN locks THEN locks ELSE locks @@ (c :> NewLock)

\* (variant: acquire without testing the lock)
CanAcquireUnchecked(lock) == TRUE

\* (variant: a free lock is taken though others wait for it)
CanAcquireBarging(lock) == ~lock.locked

\* Lock.acquire() returns at once only if the lock is free and nobody waits
CanAcquire(lock) == ~lock.locked /\ lock.waiters = <<>>

Acquired(locks, c) == [locks EXCEPT ![c].locked = TRUE]

\* (variant: release forgets the first waiter instead of waking it)
ReleasedLosingWaiter(locks, c) ==
    [locks EXCEPT ![c].locked = FALSE,
                  ![c].waiters = IF @ = <<>> THEN @ ELSE Tail(@)]

\* Lock.release(): unlock; the first waiter's future is resolved and that
\* waiter takes the lock when it next runs (WakeUp)
Released(locks, c) == [locks EXCEPT ![c].locked = FALSE]

\* (variant: leaving without release)
ExitStillLocked(locks, c) == locks

\* the lock an execution is left with when it leaves "async with"
Exit(locks, c) == Released(locks, c)


----------------------------------------------------------------------------
(* on_message                                                              *)

\* (variant: no author is taken for a bot)
author_never_bot(message) == FALSE

is_bot_message_or_from_self(message) == message.bot

\* (variant: the author is not looked at)
FilteredIgnoringAuthor(message, id, rp) ==
    \/ id \in rp
    \/ message.content = <<>>

\* the three early returns of on_message
Filtered(message, id, rp) ==
    \/ is_bot_message_or_from_self(message)
    \/ id \in rp
    \/ message.content = <<>>

\* can_delete_messages: manage_messages, or False when the query raises
can_delete_messages(answer) == answer = "yes"

\* (variant: the permission is not looked at)
DeleteAllowedUnchecked(result, answer) == result.delete_original

\* "if delete_original and await can_delete_messages(message.channel)"
DeleteAllowed(result, answer) == result.delete_original /\ can_delete_messages(answer)

\* message.delete() leaves the try statement of the delete normally or is
\* caught by one of its three except clauses
DeleteHandled(outcome) == outcome \in {"ok", "NotFound", "Forbidden", "HTTPException"}

\* send_preserved_message returns the sent message, or None after any error
SendSucceeded(outcome) == outcome = "ok"

\* "if len(recently_processed) > MAX_PROCESSED_CACHE"
OverCapacity(rp, n) == CacheSize(rp, n) > MAX_PROCESSED_CACHE

\* (variant: only the original id is added)
AddOriginalOnly(ids, m, s) == ids \cup {m}

\* recently_processed.add(message.id); recently_processed.add(sent_message.id)
AddBoth(ids, m, s) == ids \cup {m, s}

\* The loop of on_message run by execution t, which holds the lock of its
\* channel in locks, from handler `from` on, up to the point where it is
\* suspended in channel.send or leaves "async with"
RunHandlers(t, m, from, locks) ==
    \E raising \in SUBSET {j \in from..NumHandlers : results[m][j] # None} :
    LET k == FirstMatch(results[m], from, raising)
        last == IF k = 0 THEN NumHandlers ELSE k
    IN
    /\ raised' = [raised EXCEPT ![t] =
          @ \cup {j \in from..last : Raises(results[m], j, raising)}]
    /\ IF k = 0
       THEN /\ pc' = [pc EXCEPT ![t] = "done"]
            /\ channel_locks' = Exit(locks, LockKey(messages[m]))
            /\ UNCHANGED <<h, out, acted>>
       ELSE /\ pc' = [pc EXCEPT ![t] = "sending"]
            /\ h' = [h EXCEPT ![t] = k]
            /\ out' = [out EXCEPT ![t] =
                 IF m \in MsgIds THEN repost_text[m][k]
                 ELSE FormatContent(AuthorName, results[m][k].new_text)]
            /\ acted' = [acted EXCEPT ![t] = Append(@, k)]
            /\ channel_locks' = locks

\* An inbound event: on_message(message) up to its first suspension
Receive(t, m) ==
    /\ pc[t] = "idle"
    /\ t <= events
    /\ \A u \in 1..(t - 1) : pc[u] # "idle"   \* executions are numbered as they start
    /\ msg' = [msg EXCEPT ![t] = m]
    /\ UNCHANGED <<messages, results, recently_processed, older, next_id, sent, deletes,
                   recorded, perm, created, sideVars>>
    /\ IF Filtered(messages[m], m, recently_processed)
       THEN /\ pc' = [pc EXCEPT ![t] = "done"]
            /\ UNCHANGED <<h, out, acted, raised, channel_locks>>
       ELSE LET c == LockKey(messages[m])
                locks == Lookup(channel_locks, c)
            IN IF CanAcquire(locks[c])
               THEN RunHandlers(t, m, 1, Acquired(locks, c))
               ELSE /\ pc' = [pc EXCEPT ![t] = "waiting"]
                    /\ channel_locks' = [locks EXCEPT ![c].waiters = Append(@, t)]
                    /\ UNCHANGED <<h, out, acted, raised>>

\* The first waiter of a released lock resumes inside Lock.acquire()
WakeUp(t) ==
    /\ pc[t] = "waiting"
    /\ LET c == LockKey(messages[msg[t]])
       IN /\ ~channel_locks[c].locked
          /\ channel_locks[c].waiters # <<>>
          /\ Head(channel_locks[c].waiters) = t
          /\ RunHandlers(t, msg[t], 1,
                 Acquired([channel_locks EXCEPT ![c].waiters = Tail(@)], c))
    /\ UNCHANGED <<messages, results, msg, recently_processed, older, next_id, sent, deletes,
                   recorded, perm, created, sideVars>>

\* While channel.send is in flight the platform creates the new message; it
\* is a message of the bot, and from now on it can be delivered to
\* on_message like any other message of the channel
PlatformCreates(t) ==
    /\ pc[t] = "sending"
    /\ created[t] = 0
    /\ created' = [created EXCEPT ![t] = next_id]
    /\ next_id' = next_id + 1
    /\ messages' = messages @@ (next_id :> [channel |-> messages[msg[t]].channel,
                                            bot |-> TRUE, content |-> out[t]])
    /\ results' = results @@ (next_id :> IF msg[t] \in MsgIds
                                         THEN repost_results[msg[t]][h[t]]
                                         ELSE Results(out[t]))
    /\ UNCHANGED <<pc, msg, h, out, channel_locks, recently_processed, older, sent, acted,
                   raised, deletes, recorded, perm, sideVars>>

\* (variant: after a failed send the loop goes on with the next handler)
AfterSendFailureContinue(t) == RunHandlers(t, msg[t], h[t] + 1, channel_locks)

\* "if sent_message:" is skipped, then "break"
AfterSendFailure(t) ==
    /\ pc' = [pc EXCEPT ![t] = "done"]
    /\ channel_locks' = Exit(channel_locks, LockKey(messages[msg[t]]))
    /\ UNCHANGED <<h, out, acted, raised>>

\* channel.send fails (the request was refused, or its answer was lost after
\* the message was created): send_preserved_message returns None
SendFails(t, outcome) ==
    /\ pc[t] = "sending"
    /\ ~SendSucceeded(outcome)
    /\ created' = [created EXCEPT ![t] = 0]
    /\ AfterSendFailure(t)
    /\ UNCHANGED <<messages, results, msg, recently_processed, older, next_id, sent,
                   deletes, recorded, perm, sideVars>>

\* channel.send returns the new message: both ids are recorded, the cache
\* size is maintained, and the original is deleted if that is allowed
SendReturns(t, answer) ==
    /\ pc[t] = "sending"
    /\ created[t] # 0
    /\ LET m == msg[t]
           c == messages[m].channel
           s == created[t]
           added == AddBoth(recently_processed, m, s)
       IN /\ sent' = Append(sent, [id |-> s, orig |-> m, channel |-> c,
                                   text |-> out[t], task |-> t, handler |-> h[t]])
          /\ created' = [created EXCEPT ![t] = 0]
          /\ recorded' = [recorded EXCEPT ![t] = AddBoth(@, m, s)]
          /\ IF OverCapacity(added, older)
             THEN \* recently_processed.pop(): an arbitrary element
                  \/ \E v \in added : /\ recently_processed' = added \ {v}
                                      /\ older' = older
                  \/ /\ older > 0
                     /\ recently_processed' = added
                     /\ older' = older - 1
             ELSE /\ recently_processed' = added
                  /\ older' = older
          /\ perm' = [perm EXCEPT ![t] = Append(@, answer)]
          /\ IF DeleteAllowed(results[m][h[t]], answer)
             THEN /\ pc' = [pc EXCEPT ![t] = "deleting"]
                  /\ deletes' = [deletes EXCEPT ![t] = @ + 1]
                  /\ UNCHANGED channel_locks
             ELSE /\ pc' = [pc EXCEPT ![t] = "done"]
                  /\ channel_locks' = Exit(channel_locks, LockKey(messages[m]))
                  /\ UNCHANGED deletes
    /\ UNCHANGED <<messages, results, msg, h, out, next_id, acted, raised, sideVars>>

\* message.delete() returns or raises
DeleteReturns(t, outcome) ==
    /\ pc[t] = "deleting"
    /\ IF DeleteHandled(outcome)
       THEN \* "break"
            /\ pc' = [pc EXCEPT ![t] = "done"]
            /\ channel_locks' = Exit(channel_locks, LockKey(messages[msg[t]]))
            /\ UNCHANGED <<h, out, acted, raised>>
       ELSE \* "except Exception ... continue": the loop goes on
            RunHandlers(t, msg[t], h[t] + 1, channel_locks)
    /\ UNCHANGED <<messages, results, msg, recently_processed, older, next_id, sent, deletes,
                   recorded, perm, created, sideVars>>

Next ==
    \/ \E t \in Tasks, m \in DOMAIN messages : Receive(t, m)
    \/ \E t \in Tasks : WakeUp(t)
    \/ \E t \in Tasks : PlatformCreates(t)
    \/ \E t \in Tasks, o \in SendOutcomes : SendFails(t, o)
    \/ \E t \in Tasks, a \in PermissionAnswers : SendReturns(t, a)
    \/ \E t \in Tasks, o \in DeleteOutcomes : DeleteReturns(t, o)

Spec == Init /\ [][Next]_vars


----------------------------------------------------------------------------
(* The handlers on their own: one handler applied to a text, then to the   *)
(* new text it returned                                                    *)

MaxParts == 3

\* pieces a text is put together from: links of the three families with and
\* without "www.", a twitter address that is no status link, the three
\* target domains, a word and a blank
Fragments ==
    {TW,
     <<"https://", "www.", "x", ".com", "/", "u", "/", "status", "/", "1">>,
     <<"https://", "x", ".com", "/", "u">>,
     RD,
     <<"https://", "reddit", ".com">>,
     TK,
     <<"https://", "tiktok", ".com", "/", "u">>,
     <<"fxtwitter", ".com">>,
     <<"vxreddit", ".com">>,
     <<"tnktok", ".com">>,
     <<"u">>,
     <<" ">>}

\* the concatenations of at most n fragments
Texts(n) ==
    LET join[k \in 0..n] ==
            IF k = 0 THEN {<<>>}
            ELSE join[k - 1] \cup {a \o b : a \in join[k - 1], b \in Fragments}
    IN join[n]

\* the target-domain marker each handler tests for
Marker(hh) ==
    CASE hh = 1 -> <<"fxtwitter", ".com">>
      [] hh = 2 -> <<"vxreddit", ".com">>
      [] hh = 3 -> <<"tnktok", ".com">>

InitRules ==
    /\ messages = [m \in MsgIds |-> [channel |-> 1, bot |-> FALSE, content |-> <<>>]]
    /\ older = 0
    /\ events = 0
    /\ BotAtRest
    /\ SendAtRest
    /\ rule_in \in Texts(MaxParts)
    /\ rule_h = 0
    /\ rule_out = None
    /\ rule_pass = 0

\* handler(message, content)
ApplyRule(hh) ==
    /\ rule_pass = 0
    /\ rule_h' = hh
    /\ rule_out' = Handler(hh, rule_in)
    /\ rule_pass' = 1
    /\ UNCHANGED <<rule_in, botVars, sendVars>>

\* the same handler on the new_text it returned
ApplyAgain ==
    /\ rule_pass = 1
    /\ rule_out # None
    /\ rule_in' = rule_out.new_text
    /\ rule_out' = Handler(rule_h, rule_out.new_text)
    /\ rule_pass' = 2
    /\ UNCHANGED <<rule_h, botVars, sendVars>>

NextRules ==
    \/ \E hh \in 1..NumHandlers : ApplyRule(hh)
    \/ ApplyAgain

SpecRules == InitRules /\ [][NextRules]_vars

\* C10: a handler returns None for every text that contains its target
\* domain; in particular it returns None for the new text it produced.
C10_RuleIdempotent ==
    /\ (rule_pass >= 1 /\ Contains(rule_in, Marker(rule_h))) => rule_out = None
    /\ rule_pass = 2 => rule_out = None

\* a handler has rewritten a text that held links of its family, and was
\* applied to what it returned
C10_Witness ==
    /\ rule_pass = 2
    /\ Contains(rule_in, Marker(rule_h))

----------------------------------------------------------------------------
(* send_preserved_message on its own: the text is formatted, the           *)
(* attachments are read one after the other, channel.send is called        *)

MaxAttachments == 2
LenSlack == 2

Attachments == 1..MaxAttachments

\* message.attachments: the lists without repetition
AttachmentLists ==
    {l \in UNION {[1..n -> Attachments] : n \in 0..MaxAttachments} :
        \A i, j \in DOMAIN l : i # j => l[i] # l[j]}

\* a text of n characters that differ from place to place
LongText(n) == [i \in 1..n |-> CASE i % 3 = 0 -> "u" [] i % 3 = 1 -> "1" [] OTHER -> "x"]

\* display names: a short one and one as long as the part of a text that is kept
SendAuthors == {AuthorName, LongText(CutLen - 1)}

\* new texts: one a handler returns, and texts around the limit of the length
SendContents ==
    {handle_twitter(TW \o <<" ">> \o RD).new_text}
    \cup {LongText(n) : n \in 0..LenSlack}
    \cup {LongText(n) : n \in (MaxContentLen - 6 - LenSlack)..(MaxContentLen - 6 + LenSlack)}

\* attachment.read() followed by discord.File(...): done, or an error raised
FetchOutcomes == {"ok", "NotFound", "Forbidden", "HTTPException", "Exception"}

InitSend ==
    /\ messages = [m \in MsgIds |-> [channel |-> 1, bot |-> FALSE, content |-> <<>>]]
    /\ older = 0
    /\ events = 0
    /\ BotAtRest
    /\ RulesAtRest
    /\ call \in [author_name : SendAuthors, new_content : SendContents,
                 attachments : AttachmentLists]
    /\ send_pc = "start"
    /\ formatted_content = <<>>
    /\ files = <<>>
    /\ fetch_failed = {}
    /\ send_calls = <<>>
    /\ send_outcome = "none"
    /\ send_ret = "none"

\* "files if files else None"
FilesOrNone(fs) == IF fs # <<>> THEN fs ELSE None

\* channel.send(content=formatted_content, view=view, files=...) is called
\* once the last attachment has been gone through
SendCalled(content, fs) ==
    /\ send_calls' = Append(send_calls, [content |-> content, files |-> FilesOrNone(fs)])
    /\ send_pc' = "sending"
    /\ UNCHANGED <<send_outcome, send_ret>>

\* send_preserved_message is entered: the text is formatted; without
\* attachments channel.send is called at once, else the first read starts
SendPreserved ==
    /\ send_pc = "start"
    /\ formatted_content' = FormatContent(call.author_name, call.new_content)
    /\ IF call.attachments # <<>>
       THEN /\ send_pc' = "fetching"
            /\ UNCHANGED <<send_calls, send_outcome, send_ret>>
       ELSE SendCalled(formatted_content', files)
    /\ UNCHANGED <<call, files, fetch_failed, botVars, ruleVars>>

\* (variant: an error of the read is not caught in the loop)
FetchCaughtNever(outcome) == FALSE

\* "except Exception as e" of the loop over the attachments
FetchCaught(outcome) == outcome # "ok"

\* the attachment the loop is at: those before it were appended or failed
CurrentAttachment == call.attachments[Len(files) + Cardinality(fetch_failed) + 1]

\* the read of the current attachment returns or raises
FetchReturns(outcome) ==
    /\ send_pc = "fetching"
    /\ LET a == CurrentAttachment
           last == Len(files) + Cardinality(fetch_failed) + 1 = Len(call.attachments)
       IN IF outcome = "ok"
          THEN /\ files' = Append(files, a)
               /\ UNCHANGED fetch_failed
               /\ IF last THEN SendCalled(formatted_content, files')
                          ELSE UNCHANGED <<send_pc, send_calls, send_outcome, send_ret>>
          ELSE /\ fetch_failed' = fetch_failed \cup {a}
               /\ UNCHANGED files
               /\ IF FetchCaught(outcome)
                  THEN IF last THEN SendCalled(formatted_content, files)
                               ELSE UNCHANGED <<send_pc, send_calls, send_outcome, send_ret>>
                  ELSE \* the error reaches the outer "except Exception"
                       /\ send_pc' = "returned"
                       /\ send_ret' = "None"
                       /\ UNCHANGED <<send_calls, send_outcome>>
    /\ UNCHANGED <<call, formatted_content, botVars, ruleVars>>

\* channel.send returns the new message or raises; every error is caught
\* and None is returned
ChannelSendReturns(outcome) ==
    /\ send_pc = "sending"
    /\ send_pc' = "returned"
    /\ send_outcome' = outcome
    /\ send_ret' = IF SendSucceeded(outcome) THEN "message" ELSE "None"
    /\ UNCHANGED <<call, formatted_content, files, fetch_failed, send_calls, botVars,
                   ruleVars>>

NextSend ==
    \/ SendPreserved
    \/ \E o \in FetchOutcomes : FetchReturns(o)
    \/ \E o \in SendOutcomes : ChannelSendReturns(o)

SpecSend == InitSend /\ [][NextSend]_vars

\* the attachments of the call whose read did not fail, in their order
Fetched == SelectSeq(call.attachments, LAMBDA a : a \notin fetch_failed)

\* C11: whatever reads of attachments fail, channel.send is called exactly
\* once, with exactly the attachments whose read succeeded, in their
\* original order (no files at all if none is left); and the call returns
\* None only if channel.send itself failed.
C11_AttachmentFailureNotFatal ==
    /\ send_pc \in {"start", "fetching"} => send_calls = <<>>
    /\ send_pc \in {"sending", "returned"} =>
          /\ Len(send_calls) = 1
          /\ send_calls[1].files = (IF Fetched = <<>> THEN None ELSE Fetched)
          /\ Len(files) + Cardinality(fetch_failed) = Len(call.attachments)
    /\ send_pc = "returned" => (send_ret = "None" <=> send_outcome # "ok")

\* the first of two attachments could not be read, the second was sent, and
\* the call returned the new message
C11_Witness ==
    /\ send_pc = "returned"
    /\ send_ret = "message"
    /\ Len(call.attachments) = 2
    /\ fetch_failed = {call.attachments[1]}
    /\ send_calls[1].files = <<call.attachments[2]>>

\* C19: the text passed to channel.send is at most 2000 long; it is
\* "<author name>: <new text>" if that is at most 2000 long, and otherwise
\* its first 1997 characters followed by "...".
C19_LengthBound ==
    \A i \in DOMAIN send_calls :
        LET text == send_calls[i].content
            full == call.author_name \o <<":", " ">> \o call.new_content
        IN /\ TextLen(text) <= 2000
           /\ TextLen(full) <= 2000 => text = full
           /\ TextLen(full) > 2000 =>
                 /\ Len(text) = 2000
                 /\ \A k \in 1..1997 : text[k] = full[k]
                 /\ \A k \in 1998..2000 : text[k] = "."

\* a text of 2001 characters was cut
C19_Witness ==
    /\ send_calls # <<>>
    /\ TextLen(call.author_name \o <<":", " ">> \o call.new_content) = 2001
    /\ Len(send_calls[1].content) = 2000

----------------------------------------------------------------------------
(* Properties of on_message                                                *)

\* the channel of the message execution t handles
Chan(t) == messages[msg[t]].channel

\* execution t is inside "async with channel_locks[...]"
InCritical(t) == pc[t] \in {"sending", "deleting"}

\* the messages execution t has sent
SentBy(t) == {i \in DOMAIN sent : sent[i].task = t}

\* C1: for every channel, at most one execution is inside the critical
\* section at any time.
C1_MutualExclusion ==
    \A t, u \in Tasks :
        (t # u /\ InCritical(t) /\ InCritical(u)) => Chan(t) # Chan(u)

\* an execution waits for the lock of the channel another one is working in
C1_Witness ==
    \E t, u \in Tasks :
        /\ InCritical(t)
        /\ pc[u] = "waiting"
        /\ Chan(u) = Chan(t)

\* C2: a message delivered more than once is reposted at most once, also
\* when the second delivery arrives while the first execution waits for or
\* holds the channel lock.  (With older = 0 nothing is ever evicted, so a
\* second repost can only come from such an overlapping delivery.)
C2_NoDuplicateRepost ==
    older = 0 =>
        \A i, j \in DOMAIN sent :
            (i # j /\ sent[i].task # sent[j].task) => sent[i].orig # sent[j].orig

\* C3: the size of recently_processed never exceeds MAX_PROCESSED_CACHE.
C3_DedupBound == CacheSize(recently_processed, older) <= MAX_PROCESSED_CACHE

\* C4: an event that is bot-authored, or whose id is in recently_processed
\* when it is received, or whose text is empty, sends nothing, deletes
\* nothing, leaves recently_processed alone and touches no lock; and it is
\* over: an execution that has ended does nothing more.
C4_FilteredInert ==
    [][\A t \in Tasks :
          /\ (/\ pc[t] = "idle"
              /\ pc'[t] # "idle"
              /\ \/ messages[msg'[t]].bot
                 \/ msg'[t] \in recently_processed
                 \/ messages[msg'[t]].content = <<>>)
             => /\ pc'[t] = "done"
                /\ sent' = sent
                /\ acted' = acted
                /\ deletes' = deletes
                /\ recently_processed' = recently_processed
                /\ older' = older
                /\ channel_locks' = channel_locks
          /\ pc[t] = "done"
             => /\ pc'[t] = "done"
                /\ acted'[t] = acted[t]
                /\ deletes'[t] = deletes[t]
                /\ SentBy(t)' = SentBy(t)]_vars

\* a message with a link that was reposted and recorded is delivered again
\* and is dropped
C4_Witness ==
    \E t \in Tasks :
        /\ pc[t] = "done"
        /\ msg[t] # 0
        /\ ~messages[msg[t]].bot
        /\ FirstMatch(results[msg[t]], 1, {}) # 0
        /\ raised[t] = {}
        /\ acted[t] = <<>>
        /\ msg[t] \in recently_processed

\* C5: for one inbound event at most one send and at most one delete are
\* attempted, whatever the send, the permission query and the delete do.
C5_AtMostOneRepost ==
    \A t \in Tasks : Len(acted[t]) <= 1 /\ deletes[t] <= 1

\* C6: when the record-and-enforce-capacity step that follows a successful
\* send has completed, the original id and the repost id are both in
\* recently_processed.
C6_BothRecorded ==
    [][\A t \in Tasks :
          (pc[t] = "sending" /\ Len(sent') > Len(sent) /\ sent'[Len(sent')].task = t)
             => {msg[t], sent'[Len(sent')].id} \subseteq recently_processed']_vars

\* C7: a channel lock is locked only while an execution is inside the
\* critical section of that channel: no execution that has ended, on
\* whatever path, leaves it locked.
C7_LockReleased ==
    \A c \in DOMAIN channel_locks :
        channel_locks[c].locked => \E t \in Tasks : InCritical(t) /\ Chan(t) = c

\* an execution has ended after a delete that raised and a handler that
\* raised, and the lock of its channel is free
C7_Witness ==
    \E t \in Tasks :
        /\ pc[t] = "done"
        /\ deletes[t] >= 1
        /\ raised[t] # {}
        /\ ~channel_locks[Chan(t)].locked

\* C8: a delete is attempted only after a permission query that answered
\* yes; when the query answers no or fails, the repost has been sent, both
\* ids have been passed to recently_processed.add, and the execution ends.
C8_DeleteRequiresPermission ==
    \A t \in Tasks :
        /\ deletes[t] = Cardinality({i \in DOMAIN perm[t] : perm[t][i] = "yes"})
        /\ (perm[t] # <<>> /\ perm[t][Len(perm[t])] # "yes")
              => /\ pc[t] = "done"
                 /\ Cardinality(SentBy(t)) = Len(perm[t])
                 /\ \A i \in SentBy(t) : {sent[i].orig, sent[i].id} \subseteq recorded[t]

\* the permission query failed after a send, and the original was left alone
C8_Witness ==
    \E t \in Tasks :
        /\ perm[t] = <<"error">>
        /\ pc[t] = "done"
        /\ deletes[t] = 0
        /\ SentBy(t) # {}

\* C9: every repost is the result of the earliest handler, in the order
\* twitter, reddit, tiktok, that neither declined nor raised, so that links
\* of the later families are left as they were.
C9_FirstMatchWins ==
    \A i \in DOMAIN sent :
        /\ sent[i].handler = FirstMatch(results[sent[i].orig], 1, raised[sent[i].task])
        /\ sent[i].text = FormatContent(AuthorName,
                              Handler(sent[i].handler, messages[sent[i].orig].content).new_text)
        /\ \A j \in (sent[i].handler + 1)..NumHandlers :
              Handler(j, sent[i].text) = Handler(j, messages[sent[i].orig].content)
                 \/ (/\ Handler(j, sent[i].text) # None
                     /\ Handler(j, messages[sent[i].orig].content) # None
                     /\ Handler(j, sent[i].text).original_url
                          = Handler(j, messages[sent[i].orig].content).original_url)

\* the domains the handlers look for before they rewrite
SourceDomains ==
    TwitterDomains
    \cup {<<"https://", "reddit", ".com">>, <<"https://", "www.", "reddit", ".com">>}
    \cup {<<"https://", "tiktok", ".com">>, <<"https://", "www.", "tiktok", ".com">>}

HasSourceDomain(text) == \E domain \in SourceDomains : Contains(text, domain)

\* C12: for an event that is not filtered and whose text contains none of
\* the source domains, every handler returns None; the execution sends
\* nothing, deletes nothing, leaves recently_processed alone, and when it
\* has ended the lock of its channel is free.
C12_NoMatchNoEffect ==
    [][\A t \in Tasks :
          (/\ pc'[t] # pc[t]
           /\ ~messages[msg'[t]].bot
           /\ messages[msg'[t]].content # <<>>
           /\ pc[t] = "idle" => msg'[t] \notin recently_processed
           /\ ~HasSourceDomain(messages[msg'[t]].content))
          => /\ \A k \in 1..NumHandlers : results[msg'[t]][k] = None
             /\ pc'[t] \in {"waiting", "done"}
             /\ sent' = sent
             /\ acted' = acted
             /\ created' = created
             /\ deletes' = deletes
             /\ recently_processed' = recently_processed
             /\ older' = older
             /\ pc'[t] = "done" =>
                   /\ messages[msg'[t]].channel \in DOMAIN channel_locks'
                   /\ ~channel_locks'[messages[msg'[t]].channel].locked]_vars

\* an event with an address that lacks "https://" went through the lock of
\* a channel no other event touched, and ended
C12_Witness ==
    \E t \in Tasks :
        /\ pc[t] = "done"
        /\ msg[t] # 0
        /\ ~messages[msg[t]].bot
        /\ messages[msg[t]].content = <<"www.", "reddit", ".com", "/", "u">>
        /\ Chan(t) \in DOMAIN channel_locks
        /\ \A u \in Tasks \ {t} : msg[u] = 0 \/ Chan(u) # Chan(t)

\* the messages the bot itself has sent: the ones the platform created for
\* a channel.send
OwnReposts == DOMAIN messages \ MsgIds

\* C13: an execution that receives one of the bot's own reposts ends at
\* once: it sends nothing, deletes nothing and records nothing, whether the
\* repost is delivered before or after channel.send has returned, and
\* whatever links its text still contains.
C13_LoopPrevention ==
    \A t \in Tasks :
        (msg[t] # 0 /\ msg[t] \in OwnReposts)
           => /\ pc[t] = "done"
              /\ acted[t] = <<>>
              /\ deletes[t] = 0
              /\ recorded[t] = {}
              /\ created[t] = 0

\* a repost that still holds a link the second handler would rewrite was
\* delivered and dropped while channel.send had not yet returned, its id
\* not yet recorded
C13_Witness ==
    \E t, u \in Tasks :
        /\ pc[u] = "sending"
        /\ created[u] # 0
        /\ msg[t] = created[u]
        /\ pc[t] = "done"
        /\ msg[t] \notin recently_processed
        /\ results[msg[t]][2] # None

\* C14: a delete is attempted only in the step in which the send of the
\* repost of that same message has returned a message and both ids have
\* been added to recently_processed (and are in it, unless the set was
\* full); so no original is deleted without a repost of it having been sent.
C14_SendRecordDelete ==
    [][\A t \in Tasks :
          deletes'[t] > deletes[t]
          => /\ pc[t] = "sending"
             /\ created[t] # 0
             /\ Len(sent') = Len(sent) + 1
             /\ sent'[Len(sent')].task = t
             /\ sent'[Len(sent')].orig = msg[t]
             /\ sent'[Len(sent')].id = created[t]
             /\ {msg[t], created[t]} \subseteq recorded'[t]
             /\ CacheSize(recently_processed, older) + 2 <= MAX_PROCESSED_CACHE
                   => {msg[t], created[t]} \subseteq recently_processed']_vars

\* the original is being deleted, its repost sent and both ids in the set
C14_Witness ==
    \E t \in Tasks :
        /\ pc[t] = "deleting"
        /\ \E i \in SentBy(t) :
              /\ sent[i].orig = msg[t]
              /\ {msg[t], sent[i].id} \subseteq recently_processed

\* C15: when the send fails, the execution ends there: recently_processed
\* is as it was, no delete is attempted, no further handler is tried and no
\* second send is made.
C15_FailedSendAbandons ==
    [][\A t \in Tasks :
          /\ (/\ pc[t] = "sending"
              /\ sent' = sent
              /\ \/ pc'[t] # "sending"
                 \/ acted'[t] # acted[t]
                 \/ created[t] # 0 /\ created'[t] = 0)
             => /\ pc'[t] = "done"
                /\ recently_processed' = recently_processed
                /\ older' = older
                /\ recorded' = recorded
                /\ deletes' = deletes
                /\ acted' = acted
                /\ raised' = raised
                /\ perm' = perm
          /\ pc[t] = "done"
             => /\ pc'[t] = "done"
                /\ acted'[t] = acted[t]
                /\ deletes'[t] = deletes[t]]_vars

\* the send of the first handler's result failed; the second handler had a
\* result too, and nothing was sent, recorded or deleted
C15_Witness ==
    \E t \in Tasks :
        /\ pc[t] = "done"
        /\ acted[t] = <<1>>
        /\ results[msg[t]][2] # None
        /\ SentBy(t) = {}
        /\ recorded[t] = {}
        /\ deletes[t] = 0
        /\ msg[t] \notin recently_processed

\* C16: a handler that raises is passed over like one that returns None:
\* the first result acted on is that of the earliest handler that neither
\* returned None nor raised, and nothing is sent for a handler that raised.
C16_RuleErrorsIsolated ==
    \A t \in Tasks :
        LET declined(k) == results[msg[t]][k] = None \/ k \in raised[t]
        IN raised[t] # {} =>
              /\ \A i \in DOMAIN acted[t] : acted[t][i] \notin raised[t]
              /\ \A i \in SentBy(t) : sent[i].handler \notin raised[t]
              /\ acted[t] # <<>> =>
                    /\ ~declined(acted[t][1])
                    /\ \A j \in 1..(acted[t][1] - 1) : declined(j)
              /\ acted[t] = <<>> =>
                    /\ pc[t] = "done"
                    /\ \A j \in 1..NumHandlers : declined(j)
                    /\ deletes[t] = 0
                    /\ recorded[t] = {}

\* the first handler raised and the result of the second was sent
C16_Witness ==
    \E t \in Tasks :
        /\ raised[t] = {1}
        /\ acted[t] = <<2>>
        /\ \E i \in SentBy(t) : sent[i].handler = 2

----------------------------------------------------------------------------
(* The events of one channel: one event more than executions meet above,   *)
(* all of them with links, in a single channel                             *)

InitOrder ==
    /\ messages \in [MsgIds -> [channel : {1}, bot : {FALSE},
                                content : {TW \o <<" ">> \o RD, TK}]]
    /\ older = 0
    /\ events = NumTasks + 1
    /\ BotAtRest
    /\ RulesAtRest
    /\ SendAtRest

SpecOrder == InitOrder /\ [][Next]_vars

\* C17: executions are numbered in the order in which their events were
\* received.  Of two events of one channel, the later one sends nothing
\* before the earlier one has ended (its send and its delete over), and
\* the reposts of a channel are sent in the order of the events, also when
\* a third event arrives while the lock is held or has just been released.
C17_ChannelOrder ==
    /\ \A t, u \in Tasks :
          (/\ t < u
           /\ msg[t] # 0
           /\ msg[u] # 0
           /\ Chan(t) = Chan(u)
           /\ InCritical(u) \/ acted[u] # <<>>)
          => pc[t] = "done"
    /\ \A i, j \in DOMAIN sent :
          (i < j /\ sent[i].channel = sent[j].channel) => sent[i].task <= sent[j].task

\* three events of one channel: the first has been reposted and has ended,
\* the second has sent its repost and is deleting its original, the third
\* still waits for the lock
C17_Witness ==
    /\ pc[1] = "done"
    /\ SentBy(1) # {}
    /\ pc[2] = "deleting"
    /\ SentBy(2) # {}
    /\ pc[3] = "waiting"

\* execution t has gone past the three early returns
Entered(t) == pc[t] \in {"waiting", "sending", "deleting"} \/ raised[t] # {} \/ acted[t] # <<>>

\* C18: an execution waits only when the lock of its own channel is held or
\* waited for, whatever the locks of the other channels; a lock is created
\* by the first event of its channel that is not filtered, and is never
\* removed.  (Executions of two channels inside their critical sections
\* together: C18_Witness.)
C18_ChannelsIndependent ==
    [][/\ \A t \in Tasks :
             (pc[t] = "idle" /\ pc'[t] = "waiting")
             => /\ messages[msg'[t]].channel \in DOMAIN channel_locks
                /\ \/ channel_locks[messages[msg'[t]].channel].locked
                   \/ channel_locks[messages[msg'[t]].channel].waiters # <<>>
                /\ \E u \in Tasks \ {t} :
                      /\ pc[u] \in {"waiting", "sending", "deleting"}
                      /\ Chan(u) = messages[msg'[t]].channel
       /\ \A c \in DOMAIN channel_locks : c \in DOMAIN channel_locks'
       /\ \A c \in DOMAIN channel_locks' \ DOMAIN channel_locks :
             \E t \in Tasks :
                /\ pc[t] = "idle"
                /\ pc'[t] # "idle"
                /\ messages[msg'[t]].channel = c
                /\ ~messages[msg'[t]].bot
                /\ msg'[t] \notin recently_processed
                /\ messages[msg'[t]].content # <<>>
       /\ \A t \in Tasks :
             (pc[t] = "idle" /\ pc'[t] # "idle" /\ Entered(t)')
             => messages[msg'[t]].channel \in DOMAIN channel_locks']_vars

\* executions of two channels are inside their critical sections together
C18_Witness ==
    \E t, u \in Tasks :
        /\ InCritical(t)
        /\ InCritical(u)
        /\ Chan(t) # Chan(u)
        /\ DOMAIN channel_locks = {Chan(t), Chan(u)}

----------------------------------------------------------------------------
(* Progress: the event loop runs every task that can run, and every call   *)
(* of the platform returns or fails                                        *)

\* channel.send of execution t makes a step
SendStep(t) ==
    \/ PlatformCreates(t)
    \/ \E o \in SendOutcomes : SendFails(t, o)
    \/ \E a \in PermissionAnswers : SendReturns(t, a)

\* message.delete() of execution t returns or raises
DeleteStep(t) == \E o \in DeleteOutcomes : DeleteReturns(t, o)

Fairness ==
    \A t \in Tasks :
        /\ WF_vars(WakeUp(t))
        /\ WF_vars(SendStep(t))
        /\ WF_vars(DeleteStep(t))

SpecFair == InitOrder /\ [][Next]_vars /\ Fairness

\* C20: every execution that has started ends, and every execution that
\* waits for the lock of its channel gets it.
C20_Terminates ==
    \A t \in Tasks :
        /\ (pc[t] # "idle") ~> (pc[t] = "done")
        /\ (pc[t] = "waiting") ~> (pc[t] \in {"sending", "deleting", "done"})

\* all events were delivered, the three executions have ended, and each
\* has sent a repost in the one channel
C20_Witness ==
    /\ \A t \in 1..events : pc[t] = "done" /\ SentBy(t) # {}
    /\ channel_locks[1].waiters = <<>>
    /\ ~channel_locks[1].locked

====
